---------------------------- MODULE Spec2Model ----------------------------
(***************************************************************************)
(* A model of Quirk's GPU texture wrapper (src/webgl/WglTexture.js) and of *)
(* its gate catalogue (src/gates/AllGates.js).                             *)
(*                                                                         *)
(* Part I   WglTexture: lazily created texture/framebuffer pairs, cached   *)
(*          per context lifetime.                      specification Spec  *)
(***************************************************************************)
EXTENDS Integers, Sequences, FiniteSets, TLC

(***************************************************************************)
(* Bounds of the model (not program constants).                            *)
(***************************************************************************)
\* how many times the rendering context may be lost and restored
MaxLosses == 2
\* how many times the initializer may run (each run creates two GL objects)
MaxInitRuns == 3
\* how many times in a row the one-wire Fourier gate is applied
MaxApplications == 2
\* the widest bit-cycle matrix that is built and applied
MaxCycleSpan == 4
\* the longest circuit that is evaluated
MaxColumns == 2
\* the number of wires of the circuit that holds a measurement gate
MaxWires == 4
\* the latest time the clock pulse gates are asked at, in eighths
MaxTimeEighths == 16
\* how many neighbouring doubles of each multiple of 1/8 are tried, per side
NearSteps == 2

(***************************************************************************)
(* PART I -- WglTexture                                                    *)
(***************************************************************************)
VARIABLES
    width,              \* WglTexture.width
    height,             \* WglTexture.height
    pixelType,          \* WglTexture.pixelType
    slot,               \* WglTexture._textureAndFrameBufferSlot (WglMortalValueSlot)
    ctxLifetime,        \* the context's lifetime counter: bumped by a loss/restore
    glNext,             \* next fresh GL object the context hands out
    glBoundTexture,     \* GL state: texture bound to TEXTURE_2D (0 = null)
    glBoundFramebuffer, \* GL state: framebuffer bound to FRAMEBUFFER (0 = null)
    call,               \* the most recent call on the texture and how it ended
    initRuns,           \* history: initializer runs since the last context loss
    initOk,             \* history: those of them that returned a pair
    returned,           \* history: handles instanceFor returned since the last loss
    prevReturned,       \* history: handles instanceFor returned before the last loss
    validated           \* history: pairs whose three allocation checks all passed

texVars == <<width, height, pixelType, slot, ctxLifetime, glNext, glBoundTexture,
             glBoundFramebuffer, call, initRuns, initOk, returned, prevReturned, validated>>

\* the sizes and pixel types a texture is constructed with
TextureSizes == {1, 2}
PixelTypes == {"FLOAT", "UNSIGNED_BYTE"}

\* what gl.getError() may answer, and what gl.checkFramebufferStatus() may answer
GLErrors == {"NO_ERROR", "OUT_OF_MEMORY"}
GLStatuses == {"FRAMEBUFFER_COMPLETE", "FRAMEBUFFER_INCOMPLETE_ATTACHMENT"}

\* what the GL driver answers during one initializer run
InitEnvs == [texImage2D : GLErrors, framebufferTexture2D : GLErrors, status : GLStatuses]
\* what the GL driver answers after the bindFramebuffer of bindFramebufferFor
BindEnvs == [bindFramebuffer : GLErrors, status : GLStatuses]

NoHandle == [texture |-> 0, framebuffer |-> 0]
NoFault == [check |-> "none", operation |-> "none", code |-> "none", dims |-> <<>>]

\* WglUtil.checkGetErrorResult(code, previousOperationDescription): the fault it
\* raises, NoFault when it returns.  It is handed the code and the description only.
checkGetErrorResult(code, previousOperationDescription) ==
    IF code = "NO_ERROR" THEN NoFault
    ELSE [check |-> "getError", operation |-> previousOperationDescription,
          code |-> code, dims |-> <<>>]

\* WglUtil.checkFrameBufferStatusResult(code): the fault it raises, NoFault when it
\* returns.  It is handed the status only.
checkFrameBufferStatusResult(code) ==
    IF code = "FRAMEBUFFER_COMPLETE" THEN NoFault
    ELSE [check |-> "checkFramebufferStatus", operation |-> "none",
          code |-> code, dims |-> <<>>]

\* the first fault of a sequence of checks (the first throw ends the method)
RECURSIVE FirstFault(_)
FirstFault(checks) ==
    IF checks = <<>> THEN NoFault
    ELSE IF Head(checks) # NoFault THEN Head(checks)
    ELSE FirstFault(Tail(checks))

\* Mutant: the framebuffer status is not checked after the attachment.
textureAndFramebufferInitializer_noStatusCheck(env) ==
    LET result == [texture |-> glNext, framebuffer |-> glNext + 1]
        fault == FirstFault(<<checkGetErrorResult(env.texImage2D, "texImage2D"),
                              checkGetErrorResult(env.framebufferTexture2D,
                                                  "framebufferTexture2D")>>)
        raised == fault # NoFault
    IN  [raised |-> raised,
         fault |-> fault,
         result |-> IF raised THEN NoHandle ELSE result,
         created |-> result,
         glNext |-> glNext + 2,
         boundTexture |-> IF raised THEN result.texture ELSE 0,
         boundFramebuffer |-> IF raised THEN result.framebuffer ELSE 0]

\* WglTexture.textureAndFramebufferInitializer(wglContext): creates the pair,
\* binds it, allocates the image, attaches it, checks, unbinds and returns it.
\* A check that throws leaves the pair bound and returns nothing.
textureAndFramebufferInitializer(env) ==
    LET result == [texture |-> glNext, framebuffer |-> glNext + 1]
        fault == FirstFault(<<checkGetErrorResult(env.texImage2D, "texImage2D"),
                              checkGetErrorResult(env.framebufferTexture2D,
                                                  "framebufferTexture2D"),
                              checkFrameBufferStatusResult(env.status)>>)
        raised == fault # NoFault
    IN  [raised |-> raised,
         fault |-> fault,
         result |-> IF raised THEN NoHandle ELSE result,
         created |-> result,
         glNext |-> glNext + 2,
         boundTexture |-> IF raised THEN result.texture ELSE 0,
         boundFramebuffer |-> IF raised THEN result.framebuffer ELSE 0]

\* WglMortalValueSlot.initializedValue(wglContext): the value stored for the
\* context's current lifetime, initializing it first when there is none.  The
\* value is stored only once the initializer has returned.
initializedValue(env) ==
    IF slot.value # NoHandle /\ slot.lifetime = ctxLifetime
    THEN [raised |-> FALSE, fault |-> NoFault, value |-> slot.value, ranInit |-> FALSE,
          created |-> NoHandle, slot |-> slot, glNext |-> glNext,
          boundTexture |-> glBoundTexture, boundFramebuffer |-> glBoundFramebuffer]
    ELSE LET r == textureAndFramebufferInitializer(env)
         IN  [raised |-> r.raised, fault |-> r.fault, value |-> r.result,
              ranInit |-> TRUE, created |-> r.created,
              slot |-> IF r.raised THEN slot
                       ELSE [value |-> r.result, lifetime |-> ctxLifetime],
              glNext |-> r.glNext,
              boundTexture |-> r.boundTexture, boundFramebuffer |-> r.boundFramebuffer]

\* Mutant: the slot is bypassed, every call allocates a new pair.
instanceFor_uncached(env) ==
    LET r == textureAndFramebufferInitializer(env)
    IN  [raised |-> r.raised, fault |-> r.fault, value |-> r.result,
         ranInit |-> TRUE, created |-> r.created,
         slot |-> IF r.raised THEN slot
                  ELSE [value |-> r.result, lifetime |-> ctxLifetime],
         glNext |-> r.glNext,
         boundTexture |-> r.boundTexture, boundFramebuffer |-> r.boundFramebuffer]

\* Mutant: a value stored in an earlier lifetime of the context is still handed
\* out after a context loss.
instanceFor_staleAfterLoss(env) ==
    IF slot.value # NoHandle
    THEN [raised |-> FALSE, fault |-> NoFault, value |-> slot.value, ranInit |-> FALSE,
          created |-> NoHandle, slot |-> slot, glNext |-> glNext,
          boundTexture |-> glBoundTexture, boundFramebuffer |-> glBoundFramebuffer]
    ELSE initializedValue(env)

\* WglTexture.instanceFor(wglContext)
instanceFor(env) ==
    initializedValue(env)

\* WglTexture.bindFramebufferFor(wglContext): binds the instance's framebuffer,
\* then checks gl.getError() (described as "framebufferTexture2D") and the
\* framebuffer status.
bindFramebufferFor(env, bindEnv) ==
    LET i == instanceFor(env)
        fault == FirstFault(<<checkGetErrorResult(bindEnv.bindFramebuffer,
                                                  "framebufferTexture2D"),
                              checkFrameBufferStatusResult(bindEnv.status)>>)
    IN  IF i.raised THEN i @@ [raisedBy |-> "instanceFor"]
        ELSE [i EXCEPT !.boundFramebuffer = i.value.framebuffer,
                       !.raised = fault # NoFault,
                       !.fault = fault]
             @@ [raisedBy |-> IF fault # NoFault THEN "bindFramebuffer" ELSE "none"]

\* whether every allocation check of an initializer run passed
AllocationValid(env) ==
    /\ env.texImage2D = "NO_ERROR"
    /\ env.framebufferTexture2D = "NO_ERROR"
    /\ env.status = "FRAMEBUFFER_COMPLETE"

\* the history variables after a call whose instanceFor part ended as i
RecordInstance(i, env) ==
    /\ initRuns' = IF i.ranInit THEN initRuns + 1 ELSE initRuns
    /\ initOk' = IF i.ranInit /\ i.value # NoHandle THEN initOk + 1 ELSE initOk
    /\ returned' = IF i.value = NoHandle THEN returned ELSE returned \cup {i.value}
    /\ prevReturned' = prevReturned
    /\ validated' = IF i.ranInit /\ AllocationValid(env)
                    THEN validated \cup {i.created} ELSE validated

\* does the slot hold a value for the context's current lifetime
SlotLive == slot.value # NoHandle /\ slot.lifetime = ctxLifetime

\* the driver answers that matter to a call: none is read on a cache hit
OkEnv == [texImage2D |-> "NO_ERROR", framebufferTexture2D |-> "NO_ERROR",
          status |-> "FRAMEBUFFER_COMPLETE"]
EnvsRead == IF SlotLive THEN {OkEnv} ELSE InitEnvs

\* the last call left an allocation failure behind
AfterFailure == call.outcome = "raised" /\ call.raisedBy = "instanceFor"

\* a caller invokes texture.instanceFor(wglContext)
Do_instanceFor ==
    \E env \in EnvsRead :
        LET i == instanceFor(env)
        IN  /\ (i.ranInit => glNext < 2 * MaxInitRuns)
            /\ slot' = i.slot
            /\ glNext' = i.glNext
            /\ glBoundTexture' = i.boundTexture
            /\ glBoundFramebuffer' = i.boundFramebuffer
            /\ call' = [op |-> "instanceFor",
                        outcome |-> IF i.raised THEN "raised" ELSE "returned",
                        raisedBy |-> IF i.raised THEN "instanceFor" ELSE "none",
                        handle |-> i.value, fault |-> i.fault, ranInit |-> i.ranInit,
                        allocationValid |-> i.ranInit /\ AllocationValid(env),
                        afterFailure |-> AfterFailure,
                        slotWasLive |-> SlotLive]
            /\ RecordInstance(i, env)
            /\ UNCHANGED <<width, height, pixelType, ctxLifetime>>

\* a caller invokes texture.bindFramebufferFor(wglContext)
Do_bindFramebufferFor ==
    \E env \in EnvsRead, bindEnv \in BindEnvs :
        LET b == bindFramebufferFor(env, bindEnv)
        IN  /\ (b.ranInit => glNext < 2 * MaxInitRuns)
            /\ slot' = b.slot
            /\ glNext' = b.glNext
            /\ glBoundTexture' = b.boundTexture
            /\ glBoundFramebuffer' = b.boundFramebuffer
            /\ call' = [op |-> "bindFramebufferFor",
                        outcome |-> IF b.raised THEN "raised" ELSE "returned",
                        raisedBy |-> b.raisedBy,
                        handle |-> NoHandle, fault |-> b.fault, ranInit |-> b.ranInit,
                        allocationValid |-> b.ranInit /\ AllocationValid(env),
                        afterFailure |-> AfterFailure,
                        slotWasLive |-> SlotLive]
            /\ RecordInstance(b, env)
            /\ UNCHANGED <<width, height, pixelType, ctxLifetime>>

\* the rendering context is lost and restored: what was created in the old
\* lifetime is gone, the context's lifetime counter moves on
contextLoss ==
    /\ ctxLifetime < MaxLosses
    /\ ctxLifetime' = ctxLifetime + 1
    /\ glBoundTexture' = 0
    /\ glBoundFramebuffer' = 0
    /\ initRuns' = 0
    /\ initOk' = 0
    /\ prevReturned' = prevReturned \cup returned
    /\ returned' = {}
    /\ call' = [call EXCEPT !.op = "contextLoss", !.outcome = "none", !.raisedBy = "none",
                            !.handle = NoHandle, !.fault = NoFault, !.ranInit = FALSE,
                            !.allocationValid = FALSE,
                            !.afterFailure = FALSE, !.slotWasLive = FALSE]
    /\ UNCHANGED <<width, height, pixelType, slot, glNext, validated>>

\* new WglTexture(width, height, pixelType): the fields are set and the slot is
\* created empty; no GL call is made
InitTex ==
    /\ width \in TextureSizes
    /\ height \in TextureSizes
    /\ pixelType \in PixelTypes
    /\ slot = [value |-> NoHandle, lifetime |-> 0]
    /\ ctxLifetime = 0
    /\ glNext = 1
    /\ glBoundTexture = 0
    /\ glBoundFramebuffer = 0
    /\ call = [op |-> "constructor", outcome |-> "none", raisedBy |-> "none",
               handle |-> NoHandle, fault |-> NoFault, ranInit |-> FALSE,
               allocationValid |-> FALSE,
               afterFailure |-> FALSE, slotWasLive |-> FALSE]
    /\ initRuns = 0
    /\ initOk = 0
    /\ returned = {}
    /\ prevReturned = {}
    /\ validated = {}

(***************************************************************************)
(* Claims about WglTexture (specification Spec)                            *)
(***************************************************************************)
Calls == {"instanceFor", "bindFramebufferFor"}

C2_OnlyValidatedHandles ==
    /\ (returned \cup prevReturned) \subseteq validated
    /\ slot.value # NoHandle => slot.value \in validated
    /\ (call.op \in Calls /\ call.ranInit /\ ~call.allocationValid) =>
            /\ call.outcome = "raised"
            /\ call.raisedBy = "instanceFor"
            /\ call.fault # NoFault
            /\ call.handle = NoHandle
            /\ ~SlotLive
    /\ (call.op \in Calls /\ call.afterFailure) => call.ranInit

\* C2 witness: an allocation failed, and the instanceFor after it ran the
\* initializer again and returned a validated pair.
C2_Witness ==
    /\ call.op = "instanceFor"
    /\ call.afterFailure
    /\ call.ranInit
    /\ call.outcome = "returned"
    /\ call.handle \in validated

\* C3 (as claimed): the fault bindFramebufferFor raises when the bind fails names
\* the bind as the failed operation and carries the texture's width and height.
C3_BindFaultNamesBindAndSize ==
    (call.op = "bindFramebufferFor" /\ call.raisedBy = "bindFramebuffer") =>
        /\ call.fault.operation = "bindFramebuffer"
        /\ call.fault.dims = <<width, height>>


\* the lifecycle state of the texture for the context: no pair was ever stored
\* (Uninitialized), the stored pair is of the context's current lifetime (Bound),
\* or of an earlier one (Lost)
TextureState ==
    IF slot.value = NoHandle THEN "Uninitialized"
    ELSE IF slot.lifetime = ctxLifetime THEN "Bound"
    ELSE "Lost"

\* C11: the texture is Uninitialized after construction, and the constructor made
\* no GL call; it never returns to Uninitialized; it becomes Lost only from Bound
\* and only by a context loss; it becomes Bound only by an instanceFor or
\* bindFramebufferFor whose allocation passed its checks; an access keeps a Bound
\* texture Bound, makes an Uninitialized or Lost one Bound whenever its allocation
\* succeeds (instanceFor then returns; bindFramebufferFor raises at most over its
\* own bind checks), and otherwise raises and leaves the state as it was.
C11_Lifecycle ==
    [][
        LET before == TextureState
            after == TextureState'
            access == call'.op \in Calls /\ ctxLifetime' = ctxLifetime
        IN  /\ call.op = "constructor" =>
                  /\ before = "Uninitialized"
                  /\ glNext = 1 /\ glBoundTexture = 0 /\ glBoundFramebuffer = 0
            /\ after = "Uninitialized" => before = "Uninitialized"
            /\ (after = "Lost" /\ before # "Lost") =>
                  /\ before = "Bound"
                  /\ ctxLifetime' # ctxLifetime
                  /\ call'.op = "contextLoss"
            /\ ctxLifetime' # ctxLifetime =>
                  after = IF before = "Uninitialized" THEN "Uninitialized" ELSE "Lost"
            /\ (after = "Bound" /\ before # "Bound") =>
                  access /\ call'.ranInit /\ call'.allocationValid
            /\ access =>
                  /\ before = "Bound" => after = "Bound" /\ ~call'.ranInit
                  /\ (before # "Bound" /\ call'.allocationValid) =>
                        /\ after = "Bound"
                        /\ call'.raisedBy # "instanceFor"
                        /\ call'.op = "instanceFor" => call'.outcome = "returned"
                  /\ (before # "Bound" /\ ~call'.allocationValid) =>
                        /\ after = before
                        /\ call'.outcome = "raised"
                        /\ call'.raisedBy = "instanceFor"
    ]_texVars

\* C11 witness: the texture was Bound, lost its pair with the context, and the
\* next access made it Bound again and returned.
C11_Witness ==
    /\ TextureState = "Bound"
    /\ ctxLifetime >= 1
    /\ prevReturned # {}
    /\ call.slotWasLive = FALSE
    /\ call.ranInit
    /\ call.outcome = "returned"

(***************************************************************************)
(* PART II -- the gate catalogue (src/gates/AllGates.js)                   *)
(***************************************************************************)

(***************************************************************************)
(* Exact arithmetic.  A real number is (p + q*sqrt(2)) / 2^k, kept in      *)
(* lowest terms; it covers every cosine and sine of a multiple of a eighth *)
(* of a turn and every power of sqrt(1/2).                                 *)
(***************************************************************************)
RECURSIVE Pow2(_)
Pow2(n) == IF n <= 0 THEN 1 ELSE 2 * Pow2(n - 1)

RECURSIVE RNorm(_)
RNorm(x) ==
    IF x.k > 0 /\ x.p % 2 = 0 /\ x.q % 2 = 0
    THEN RNorm([p |-> x.p \div 2, q |-> x.q \div 2, k |-> x.k - 1])
    ELSE x

Real(p, q, k) == RNorm([p |-> p, q |-> q, k |-> k])
RInt(n) == Real(n, 0, 0)
RAdd(a, b) ==
    LET k == IF a.k >= b.k THEN a.k ELSE b.k
    IN  Real(a.p * Pow2(k - a.k) + b.p * Pow2(k - b.k),
             a.q * Pow2(k - a.k) + b.q * Pow2(k - b.k), k)
RNeg(a) == Real(-a.p, -a.q, a.k)
RMul(a, b) == Real(a.p * b.p + 2 * a.q * b.q, a.p * b.q + a.q * b.p, a.k + b.k)

\* new Complex(real, imag)
Complex(real, imag) == [re |-> real, im |-> imag]
CZero == Complex(RInt(0), RInt(0))
COne == Complex(RInt(1), RInt(0))
CAdd(a, b) == Complex(RAdd(a.re, b.re), RAdd(a.im, b.im))
CMul(a, b) == Complex(RAdd(RMul(a.re, b.re), RNeg(RMul(a.im, b.im))),
                      RAdd(RMul(a.re, b.im), RMul(a.im, b.re)))

\* Math.pow(0.5, n/2)
HalfToThe(n) ==
    IF n % 2 = 0 THEN Real(1, 0, n \div 2) ELSE Real(0, 1, (n + 1) \div 2)

\* Math.cos and Math.sin of e eighths of a turn
CosEighths(e) ==
    CASE e % 8 = 0 -> RInt(1)
      [] e % 8 = 1 -> Real(0, 1, 1)
      [] e % 8 = 2 -> RInt(0)
      [] e % 8 = 3 -> Real(0, -1, 1)
      [] e % 8 = 4 -> RInt(-1)
      [] e % 8 = 5 -> Real(0, -1, 1)
      [] e % 8 = 6 -> RInt(0)
      [] e % 8 = 7 -> Real(0, 1, 1)
SinEighths(e) == CosEighths(e + 6)

\* Complex.polar(magnitude, phase) for magnitude 0.5^(halfPower/2) and a phase of
\* turnNum/turnDen turns, turnDen dividing 8*turnNum
ComplexPolar(halfPower, turnNum, turnDen) ==
    LET e == (8 * turnNum) \div turnDen
    IN  Complex(RMul(HalfToThe(halfPower), CosEighths(e)),
                RMul(HalfToThe(halfPower), SinEighths(e)))

\* Matrix.generate(width, height, coefficientRowColGenerator)
MatrixGenerate(w, h, coefficientRowColGenerator(_, _)) ==
    [r \in 0..(h - 1) |-> [c \in 0..(w - 1) |-> coefficientRowColGenerator(r, c)]]

\* Seq.range(n): 0, 1, ..., n-1
SeqRange(n) == [k \in 1..n |-> k - 1]

\* JavaScript's <<, >>, & and | on the operands used here: non-negative and, with
\* spans of at most 16 wires, far below 2^31, where the 32-bit results wrap
Shl(a, n) == a * Pow2(n)
Shr(a, n) == a \div Pow2(n)
RECURSIVE BitAnd(_, _)
BitAnd(a, b) ==
    IF a = 0 \/ b = 0 THEN 0
    ELSE (a % 2) * (b % 2) + 2 * BitAnd(a \div 2, b \div 2)
RECURSIVE BitOr(_, _)
BitOr(a, b) ==
    IF a = 0 THEN b
    ELSE IF b = 0 THEN a
    ELSE (IF a % 2 = 1 \/ b % 2 = 1 THEN 1 ELSE 0) + 2 * BitOr(a \div 2, b \div 2)

(***************************************************************************)
(* The Gate builder (src/circuit/Gate.js).  A gate's serialized id is its  *)
(* symbol unless withSerializedId replaces it; its height is 1 unless      *)
(* withHeight replaces it.                                                 *)
(***************************************************************************)
Undefined == [kind |-> "undefined"]
Frac(num, den) == <<num, den>>

\* Matrix.fromPauliRotation(x, y, z): the rotation by x, y, z turns about X, Y, Z
fromPauliRotation(x, y, z) == [kind |-> "pauliRotation", x |-> x, y |-> y, z |-> z]

fromKnownMatrix(symbol, matrix) ==
    [symbol |-> symbol, serializedId |-> symbol, height |-> 1, matrix |-> matrix,
     stable |-> TRUE, customShaders |-> FALSE]
fromIdentity(symbol) == fromKnownMatrix(symbol, [kind |-> "identity"])
fromVaryingMatrix(symbol, matrixFunc) ==
    [symbol |-> symbol, serializedId |-> symbol, height |-> 1,
     matrix |-> [kind |-> "varying", func |-> matrixFunc],
     stable |-> FALSE, customShaders |-> FALSE]
withoutKnownMatrix(symbol) ==
    [symbol |-> symbol, serializedId |-> symbol, height |-> 1, matrix |-> Undefined,
     stable |-> FALSE, customShaders |-> FALSE]
markedAsStable(gate) == [gate EXCEPT !.stable = TRUE]
withKnownMatrix(gate, matrix) == [gate EXCEPT !.matrix = matrix]
withSerializedId(gate, id) == [gate EXCEPT !.serializedId = id]
withHeight(gate, h) == [gate EXCEPT !.height = h]
withCustomShaders(gate) == [gate EXCEPT !.customShaders = TRUE]

\* Gate.generateFamily(minSize, maxSize, gateGenerator): the generator is run once
\* for every span of the range and the gates are kept
generateFamily(minSize, maxSize, gateGenerator(_)) ==
    [all |-> [k \in 1..(maxSize - minSize + 1) |-> gateGenerator(minSize + k - 1)]]

\* family.ofSize(span): the kept gate of that height, undefined when there is none
ofSize(family, span) ==
    LET hits == SelectSeq(family.all, LAMBDA g : g.height = span)
    IN  IF hits = <<>> THEN Undefined ELSE Head(hits)

\* a gate, and a family of gates, defined in a file the catalogue imports
\* (HalfTurnGates.js, ArithmeticGates.js, ...): only its place in the catalogue is
\* known; its serialized id stands for "the unique id of that definition"
ImportedGate(path) == fromIdentity(path)
ImportedFamily(path) ==
    generateFamily(1, 4, LAMBDA span :
        withHeight(withSerializedId(ImportedGate(path), path \o ToString(span)), span))

\* Gates.Special (AllGates.js:36-109)
Special == [
    Control |-> fromIdentity("{U+2022}"),
    AntiControl |-> fromIdentity("{U+25E6}"),
    Measurement |-> fromIdentity("Measure"),
    SwapHalf |-> fromKnownMatrix("Swap",
        [kind |-> "square",
         rows |-> << <<1, 0, 0, 0>>, <<0, 0, 1, 0>>, <<0, 1, 0, 0>>, <<0, 0, 0, 1>> >>])]

\* Gates.Displays.BlochSphereDisplay (AllGates.js:121-129)
BlochSphereDisplay == fromIdentity("Bloch")

\* Mutant: every cell of the matrix has the phase 0.
FOURIER_TRANSFORM_MATRIX_MAKER_noPhase(span) ==
    MatrixGenerate(Shl(1, span), Shl(1, span),
                   LAMBDA r, c : ComplexPolar(span, 0, Shl(1, span)))

\* const FOURIER_TRANSFORM_MATRIX_MAKER (AllGates.js:137-138)
FOURIER_TRANSFORM_MATRIX_MAKER(span) ==
    MatrixGenerate(Shl(1, span), Shl(1, span),
                   LAMBDA r, c : ComplexPolar(span, r * c, Shl(1, span)))

\* Mutant: the swap pass pairs wire bit+i with wire bit+span-i.
FourierTransformCustomShaders_offByOne(span, con, bit) ==
    [k \in 1..(span \div 2) |->
        LET i == SeqRange(span \div 2)[k]
        IN  [shader |-> "CircuitShaders.swap", con |-> con, bit |-> bit,
             a |-> bit + i, b |-> bit + span - i]]
    \o
    [k \in 1..span |->
        LET i == SeqRange(span)[k]
        IN  [shader |-> "GateShaders.fourierTransformStep", con |-> con, bit |-> bit,
             i |-> i]]

\* the shader calls of the Fourier gate's custom shader list, invoked with the
\* control mask con and the gate's lowest wire bit (AllGates.js:148-153)
FourierTransformCustomShaders(span, con, bit) ==
    [k \in 1..(span \div 2) |->
        LET i == SeqRange(span \div 2)[k]
        IN  [shader |-> "CircuitShaders.swap", con |-> con, bit |-> bit,
             a |-> bit + i, b |-> bit + span - i - 1]]
    \o
    [k \in 1..span |->
        LET i == SeqRange(span)[k]
        IN  [shader |-> "GateShaders.fourierTransformStep", con |-> con, bit |-> bit,
             i |-> i]]

\* Mutant: the generator leaves the height of every member at 1.
FourierTransformGate_noHeight(span) ==
    withCustomShaders(
        withSerializedId(
            withKnownMatrix(
                markedAsStable(withoutKnownMatrix("QFT")),
                IF span >= 4 THEN Undefined
                ELSE [kind |-> "generated",
                      cells |-> FOURIER_TRANSFORM_MATRIX_MAKER(span)]),
            "QFT" \o ToString(span)))

\* the generator of Gates.FourierTransformFamily (AllGates.js:140-153)
FourierTransformGate(span) ==
    withCustomShaders(
        withHeight(
            withSerializedId(
                withKnownMatrix(
                    markedAsStable(withoutKnownMatrix("QFT")),
                    IF span >= 4 THEN Undefined
                    ELSE [kind |-> "generated",
                          cells |-> FOURIER_TRANSFORM_MATRIX_MAKER(span)]),
                "QFT" \o ToString(span)),
            span))

\* Gates.FourierTransformFamily (AllGates.js:140)
FourierTransformFamily == generateFamily(1, 16, FourierTransformGate)

\* Mutant: the backward square root of Z turns by a quarter, like the forward one.
QuarterTurns_backwardLikeForward == [
    SqrtXForward |-> fromKnownMatrix("X^{U+00BD}",
        fromPauliRotation(Frac(1, 4), Frac(0, 1), Frac(0, 1))),
    SqrtXBackward |-> fromKnownMatrix("X^-{U+00BD}",
        fromPauliRotation(Frac(3, 4), Frac(0, 1), Frac(0, 1))),
    SqrtYForward |-> fromKnownMatrix("Y^{U+00BD}",
        fromPauliRotation(Frac(0, 1), Frac(1, 4), Frac(0, 1))),
    SqrtYBackward |-> fromKnownMatrix("Y^-{U+00BD}",
        fromPauliRotation(Frac(0, 1), Frac(3, 4), Frac(0, 1))),
    SqrtZForward |-> fromKnownMatrix("Z^{U+00BD}",
        fromPauliRotation(Frac(0, 1), Frac(0, 1), Frac(1, 4))),
    SqrtZBackward |-> fromKnownMatrix("Z^-{U+00BD}",
        fromPauliRotation(Frac(0, 1), Frac(0, 1), Frac(1, 4)))]

\* Gates.QuarterTurns (AllGates.js:157-193)
QuarterTurns == [
    SqrtXForward |-> fromKnownMatrix("X^{U+00BD}",
        fromPauliRotation(Frac(1, 4), Frac(0, 1), Frac(0, 1))),
    SqrtXBackward |-> fromKnownMatrix("X^-{U+00BD}",
        fromPauliRotation(Frac(3, 4), Frac(0, 1), Frac(0, 1))),
    SqrtYForward |-> fromKnownMatrix("Y^{U+00BD}",
        fromPauliRotation(Frac(0, 1), Frac(1, 4), Frac(0, 1))),
    SqrtYBackward |-> fromKnownMatrix("Y^-{U+00BD}",
        fromPauliRotation(Frac(0, 1), Frac(3, 4), Frac(0, 1))),
    SqrtZForward |-> fromKnownMatrix("Z^{U+00BD}",
        fromPauliRotation(Frac(0, 1), Frac(0, 1), Frac(1, 4))),
    SqrtZBackward |-> fromKnownMatrix("Z^-{U+00BD}",
        fromPauliRotation(Frac(0, 1), Frac(0, 1), Frac(3, 4)))]

\* Gates.OtherZ (AllGates.js:195-236)
OtherZ == [
    Z3 |-> fromKnownMatrix("Z^{U+2153}",
        fromPauliRotation(Frac(0, 1), Frac(0, 1), Frac(1, 6))),
    Z3i |-> fromKnownMatrix("Z^-{U+2153}",
        fromPauliRotation(Frac(0, 1), Frac(0, 1), Frac(-1, 6))),
    Z4 |-> fromKnownMatrix("Z^{U+00BC}",
        fromPauliRotation(Frac(0, 1), Frac(0, 1), Frac(1, 8))),
    Z4i |-> fromKnownMatrix("Z^-{U+00BC}",
        fromPauliRotation(Frac(0, 1), Frac(0, 1), Frac(-1, 8))),
    Z8 |-> fromKnownMatrix("Z^{U+215B}",
        fromPauliRotation(Frac(0, 1), Frac(0, 1), Frac(1, 16))),
    Z8i |-> fromKnownMatrix("Z^-{U+215B}",
        fromPauliRotation(Frac(0, 1), Frac(0, 1), Frac(-1, 16))),
    Z16 |-> fromKnownMatrix("Z^{U+215F}{U+2081}{U+2086}",
        fromPauliRotation(Frac(0, 1), Frac(0, 1), Frac(1, 32))),
    Z16i |-> fromKnownMatrix("Z^-{U+215F}{U+2081}{U+2086}",
        fromPauliRotation(Frac(0, 1), Frac(0, 1), Frac(-1, 32)))]

\* Gates.OtherX (AllGates.js:238-279)
OtherX == [
    X3 |-> fromKnownMatrix("X^{U+2153}",
        fromPauliRotation(Frac(1, 6), Frac(0, 1), Frac(0, 1))),
    X3i |-> fromKnownMatrix("X^-{U+2153}",
        fromPauliRotation(Frac(-1, 6), Frac(0, 1), Frac(0, 1))),
    X4 |-> fromKnownMatrix("X^{U+00BC}",
        fromPauliRotation(Frac(1, 8), Frac(0, 1), Frac(0, 1))),
    X4i |-> fromKnownMatrix("X^-{U+00BC}",
        fromPauliRotation(Frac(-1, 8), Frac(0, 1), Frac(0, 1))),
    X8 |-> fromKnownMatrix("X^{U+215B}",
        fromPauliRotation(Frac(1, 16), Frac(0, 1), Frac(0, 1))),
    X8i |-> fromKnownMatrix("X^-{U+215B}",
        fromPauliRotation(Frac(-1, 16), Frac(0, 1), Frac(0, 1))),
    X16 |-> fromKnownMatrix("X^{U+215F}{U+2081}{U+2086}",
        fromPauliRotation(Frac(1, 32), Frac(0, 1), Frac(0, 1))),
    X16i |-> fromKnownMatrix("X^-{U+215F}{U+2081}{U+2086}",
        fromPauliRotation(Frac(-1, 32), Frac(0, 1), Frac(0, 1)))]

\* Gates.OtherY (AllGates.js:281-322)
OtherY == [
    Y3 |-> fromKnownMatrix("Y^{U+2153}",
        fromPauliRotation(Frac(0, 1), Frac(1, 6), Frac(0, 1))),
    Y3i |-> fromKnownMatrix("Y^-{U+2153}",
        fromPauliRotation(Frac(0, 1), Frac(-1, 6), Frac(0, 1))),
    Y4 |-> fromKnownMatrix("Y^{U+00BC}",
        fromPauliRotation(Frac(0, 1), Frac(1, 8), Frac(0, 1))),
    Y4i |-> fromKnownMatrix("Y^-{U+00BC}",
        fromPauliRotation(Frac(0, 1), Frac(-1, 8), Frac(0, 1))),
    Y8 |-> fromKnownMatrix("Y^{U+215B}",
        fromPauliRotation(Frac(0, 1), Frac(1, 16), Frac(0, 1))),
    Y8i |-> fromKnownMatrix("Y^-{U+215B}",
        fromPauliRotation(Frac(0, 1), Frac(-1, 16), Frac(0, 1))),
    Y16 |-> fromKnownMatrix("Y^{U+215F}{U+2081}{U+2086}",
        fromPauliRotation(Frac(0, 1), Frac(1, 32), Frac(0, 1))),
    Y16i |-> fromKnownMatrix("Y^-{U+215F}{U+2081}{U+2086}",
        fromPauliRotation(Frac(0, 1), Frac(-1, 32), Frac(0, 1)))]

\* Gates.Misc: the gates Gates.KnownToSerializer lists (AllGates.js:344-381)
Misc == [
    ClockPulseGate |-> fromVaryingMatrix("X^{U+2308}t{U+2309}", "ClockPulse"),
    QuarterPhaseClockPulseGate |->
        fromVaryingMatrix("X^{U+2308}t-{U+00BC}{U+2309}", "QuarterPhaseClockPulse"),
    SpacerGate |-> fromIdentity("{U+2026}")]

\* Mutant: the bit shifted out at the top is dropped instead of wrapped around.
CYCLE_BITS_MATRIX_MAKER_noWrap(span) ==
    MatrixGenerate(Shl(1, span), Shl(1, span), LAMBDA r, c :
        LET expected == r
            input == c
            actual0 == Shl(input, 1)
            actual == BitAnd(actual0, Shl(1, span) - 1)
        IN  IF expected = actual THEN 1 ELSE 0)

\* const CYCLE_BITS_MATRIX_MAKER (AllGates.js:384-390)
CYCLE_BITS_MATRIX_MAKER(span) ==
    MatrixGenerate(Shl(1, span), Shl(1, span), LAMBDA r, c :
        LET expected == r
            input == c
            actual0 == Shl(input, 1)
            actual == BitOr(BitAnd(actual0, Shl(1, span) - 1), Shr(actual0, span))
        IN  IF expected = actual THEN 1 ELSE 0)

\* Mutant: every member of the family is given the same serialized id.
CycleBitsGate_sameId(span) ==
    withCustomShaders(
        withHeight(
            withSerializedId(
                withKnownMatrix(
                    markedAsStable(withoutKnownMatrix("<<=1")),
                    IF span >= 4 THEN Undefined
                    ELSE [kind |-> "generated", cells |-> CYCLE_BITS_MATRIX_MAKER(span)]),
                "__unstable__cycle"),
            span))

\* the generator of CycleBitsFamily (AllGates.js:410-419)
CycleBitsGate(span) ==
    withCustomShaders(
        withHeight(
            withSerializedId(
                withKnownMatrix(
                    markedAsStable(withoutKnownMatrix("<<=1")),
                    IF span >= 4 THEN Undefined
                    ELSE [kind |-> "generated", cells |-> CYCLE_BITS_MATRIX_MAKER(span)]),
                "__unstable__cycle" \o ToString(span)),
            span))

\* Gates.ExperimentalAndImplausible (AllGates.js:392-420)
ExperimentalAndImplausible == [
    UniversalNot |->
        withSerializedId(
            withCustomShaders(markedAsStable(withoutKnownMatrix("UniNot"))),
            "__unstable__UniversalNot"),
    ErrorInjection |->
        withSerializedId(
            withCustomShaders(markedAsStable(withoutKnownMatrix("ERR!"))),
            "__debug__ErrorInjection"),
    CycleBitsFamily |-> generateFamily(2, 16, CycleBitsGate)]

\* Gates.KnownToSerializer (AllGates.js:561-649)
KnownToSerializer ==
    << Special.Control, Special.AntiControl, Special.Measurement, Special.SwapHalf,
       ImportedGate("PostSelectionGates.PostSelectOff"),
       ImportedGate("PostSelectionGates.PostSelectOn"),
       ImportedGate("PostSelectionGates.PostSelectPlus"),
       ImportedGate("PostSelectionGates.PostSelectMinus") >>
    \o ImportedFamily("AmplitudeDisplayFamily").all
    \o ImportedFamily("ProbabilityDisplayFamily").all
    \o ImportedFamily("SampleDisplayFamily").all
    \o ImportedFamily("DensityMatrixDisplayFamily").all
    \o << BlochSphereDisplay,
          Misc.SpacerGate, Misc.ClockPulseGate, Misc.QuarterPhaseClockPulseGate,
          ImportedGate("HalfTurnGates.H"), ImportedGate("HalfTurnGates.X"),
          ImportedGate("HalfTurnGates.Y"), ImportedGate("HalfTurnGates.Z"),
          QuarterTurns.SqrtXForward, QuarterTurns.SqrtYForward, QuarterTurns.SqrtZForward,
          QuarterTurns.SqrtXBackward, QuarterTurns.SqrtYBackward,
          QuarterTurns.SqrtZBackward,
          ImportedGate("PoweringGates.XForward"), ImportedGate("PoweringGates.YForward"),
          ImportedGate("PoweringGates.ZForward"), ImportedGate("PoweringGates.XBackward"),
          ImportedGate("PoweringGates.YBackward"), ImportedGate("PoweringGates.ZBackward"),
          ImportedGate("ExponentiatingGates.XBackward"),
          ImportedGate("ExponentiatingGates.YBackward"),
          ImportedGate("ExponentiatingGates.ZBackward"),
          ImportedGate("ExponentiatingGates.XForward"),
          ImportedGate("ExponentiatingGates.YForward"),
          ImportedGate("ExponentiatingGates.ZForward"),
          OtherX.X3, OtherX.X4, OtherX.X8, OtherX.X16,
          OtherX.X3i, OtherX.X4i, OtherX.X8i, OtherX.X16i,
          OtherY.Y3, OtherY.Y4, OtherY.Y8, OtherY.Y16,
          OtherY.Y3i, OtherY.Y4i, OtherY.Y8i, OtherY.Y16i,
          OtherZ.Z3, OtherZ.Z4, OtherZ.Z8, OtherZ.Z16,
          OtherZ.Z3i, OtherZ.Z4i, OtherZ.Z8i, OtherZ.Z16i >>
    \o ImportedFamily("ArithmeticGates.IncrementFamily").all
    \o ImportedFamily("ArithmeticGates.DecrementFamily").all
    \o ImportedFamily("ArithmeticGates.AdditionFamily").all
    \o ImportedFamily("ArithmeticGates.SubtractionFamily").all
    \o ImportedFamily("ArithmeticGates.CountingFamily").all
    \o ImportedFamily("ArithmeticGates.UncountingFamily").all
    \o FourierTransformFamily.all
    \o ImportedFamily("PhaseGradientGates.PhaseGradientFamily").all
    \o ImportedFamily("PhaseGradientGates.PhaseDegradientFamily").all
    \o << ExperimentalAndImplausible.UniversalNot,
          ExperimentalAndImplausible.ErrorInjection >>
    \o ExperimentalAndImplausible.CycleBitsFamily.all

\* the empty place of a toolbox group (null)
Null == [kind |-> "null"]

\* Gates.Misc.MysteryGateMaker() (AllGates.js:338-343): a gate with the symbol "?"
\* and a matrix drawn at random when the toolbox is built
MysteryGateMaker == fromKnownMatrix("?", [kind |-> "closestUnitaryOfRandom"])

\* Mutant: the fourth place of the "Other Z" group holds Z16i.
Sets_otherZWithInverse ==
    << [hint |-> "Probes",
        gates |-> << Special.Measurement,
                     ImportedGate("PostSelectionGates.PostSelectOff"),
                     Special.AntiControl,
                     Null,
                     ImportedGate("PostSelectionGates.PostSelectOn"),
                     Special.Control >>],
       [hint |-> "Displays",
        gates |-> << ofSize(ImportedFamily("SampleDisplayFamily"), 3),
                     ofSize(ImportedFamily("DensityMatrixDisplayFamily"), 1),
                     ofSize(ImportedFamily("ProbabilityDisplayFamily"), 1),
                     Null,
                     BlochSphereDisplay,
                     ofSize(ImportedFamily("AmplitudeDisplayFamily"), 2) >>],
       [hint |-> "Half Turns",
        gates |-> << ImportedGate("HalfTurnGates.Z"),
                     ImportedGate("HalfTurnGates.Y"),
                     ImportedGate("HalfTurnGates.X"),
                     Special.SwapHalf,
                     Null,
                     ImportedGate("HalfTurnGates.H") >>],
       [hint |-> "Quarter Turns",
        gates |-> << QuarterTurns.SqrtZForward, QuarterTurns.SqrtYForward,
                     QuarterTurns.SqrtXForward, QuarterTurns.SqrtZBackward,
                     QuarterTurns.SqrtYBackward, QuarterTurns.SqrtXBackward >>],
       [hint |-> "Eighth Turns",
        gates |-> << OtherZ.Z4, OtherY.Y4, OtherX.X4,
                     OtherZ.Z4i, OtherY.Y4i, OtherX.X4i >>],
       [hint |-> "Misc",
        gates |-> << ofSize(ImportedFamily("PhaseGradientGates.PhaseGradientFamily"), 2),
                     Null,
                     ofSize(FourierTransformFamily, 2),
                     ofSize(ImportedFamily("PhaseGradientGates.PhaseDegradientFamily"), 2),
                     MysteryGateMaker,
                     Misc.SpacerGate >>],
       [hint |-> "Arithmetic",
        gates |-> << ofSize(ImportedFamily("ArithmeticGates.CountingFamily"), 2),
                     ofSize(ImportedFamily("ArithmeticGates.AdditionFamily"), 4),
                     ofSize(ImportedFamily("ArithmeticGates.IncrementFamily"), 2),
                     ofSize(ImportedFamily("ArithmeticGates.UncountingFamily"), 2),
                     ofSize(ImportedFamily("ArithmeticGates.SubtractionFamily"), 4),
                     ofSize(ImportedFamily("ArithmeticGates.DecrementFamily"), 2) >>],
       [hint |-> "Raising",
        gates |-> << ImportedGate("PoweringGates.ZForward"),
                     ImportedGate("PoweringGates.YForward"),
                     ImportedGate("PoweringGates.XForward"),
                     ImportedGate("PoweringGates.ZBackward"),
                     ImportedGate("PoweringGates.YBackward"),
                     ImportedGate("PoweringGates.XBackward") >>],
       [hint |-> "Exponentiating",
        gates |-> << ImportedGate("ExponentiatingGates.ZForward"),
                     ImportedGate("ExponentiatingGates.YForward"),
                     ImportedGate("ExponentiatingGates.XForward"),
                     ImportedGate("ExponentiatingGates.ZBackward"),
                     ImportedGate("ExponentiatingGates.YBackward"),
                     ImportedGate("ExponentiatingGates.XBackward") >>],
       [hint |-> "Other X",
        gates |-> << OtherX.X16, OtherX.X8, OtherX.X3,
                     OtherX.X16i, OtherX.X8i, OtherX.X3i >>],
       [hint |-> "Other Y",
        gates |-> << OtherY.Y16, OtherY.Y8, OtherY.Y3,
                     OtherY.Y16i, OtherY.Y8i, OtherY.Y3i >>],
       [hint |-> "Other Z",
        gates |-> << OtherZ.Z16, OtherZ.Z8, OtherZ.Z3,
                     OtherZ.Z16i, OtherZ.Z8i, OtherZ.Z3i >>] >>

\* Gates.Sets (AllGates.js:425-558): the groups of the toolbox, six places each
Sets ==
    << [hint |-> "Probes",
        gates |-> << Special.Measurement,
                     ImportedGate("PostSelectionGates.PostSelectOff"),
                     Special.AntiControl,
                     Null,
                     ImportedGate("PostSelectionGates.PostSelectOn"),
                     Special.Control >>],
       [hint |-> "Displays",
        gates |-> << ofSize(ImportedFamily("SampleDisplayFamily"), 3),
                     ofSize(ImportedFamily("DensityMatrixDisplayFamily"), 1),
                     ofSize(ImportedFamily("ProbabilityDisplayFamily"), 1),
                     Null,
                     BlochSphereDisplay,
                     ofSize(ImportedFamily("AmplitudeDisplayFamily"), 2) >>],
       [hint |-> "Half Turns",
        gates |-> << ImportedGate("HalfTurnGates.Z"),
                     ImportedGate("HalfTurnGates.Y"),
                     ImportedGate("HalfTurnGates.X"),
                     Special.SwapHalf,
                     Null,
                     ImportedGate("HalfTurnGates.H") >>],
       [hint |-> "Quarter Turns",
        gates |-> << QuarterTurns.SqrtZForward, QuarterTurns.SqrtYForward,
                     QuarterTurns.SqrtXForward, QuarterTurns.SqrtZBackward,
                     QuarterTurns.SqrtYBackward, QuarterTurns.SqrtXBackward >>],
       [hint |-> "Eighth Turns",
        gates |-> << OtherZ.Z4, OtherY.Y4, OtherX.X4,
                     OtherZ.Z4i, OtherY.Y4i, OtherX.X4i >>],
       [hint |-> "Misc",
        gates |-> << ofSize(ImportedFamily("PhaseGradientGates.PhaseGradientFamily"), 2),
                     Null,
                     ofSize(FourierTransformFamily, 2),
                     ofSize(ImportedFamily("PhaseGradientGates.PhaseDegradientFamily"), 2),
                     MysteryGateMaker,
                     Misc.SpacerGate >>],
       [hint |-> "Arithmetic",
        gates |-> << ofSize(ImportedFamily("ArithmeticGates.CountingFamily"), 2),
                     ofSize(ImportedFamily("ArithmeticGates.AdditionFamily"), 4),
                     ofSize(ImportedFamily("ArithmeticGates.IncrementFamily"), 2),
                     ofSize(ImportedFamily("ArithmeticGates.UncountingFamily"), 2),
                     ofSize(ImportedFamily("ArithmeticGates.SubtractionFamily"), 4),
                     ofSize(ImportedFamily("ArithmeticGates.DecrementFamily"), 2) >>],
       [hint |-> "Raising",
        gates |-> << ImportedGate("PoweringGates.ZForward"),
                     ImportedGate("PoweringGates.YForward"),
                     ImportedGate("PoweringGates.XForward"),
                     ImportedGate("PoweringGates.ZBackward"),
                     ImportedGate("PoweringGates.YBackward"),
                     ImportedGate("PoweringGates.XBackward") >>],
       [hint |-> "Exponentiating",
        gates |-> << ImportedGate("ExponentiatingGates.ZForward"),
                     ImportedGate("ExponentiatingGates.YForward"),
                     ImportedGate("ExponentiatingGates.XForward"),
                     ImportedGate("ExponentiatingGates.ZBackward"),
                     ImportedGate("ExponentiatingGates.YBackward"),
                     ImportedGate("ExponentiatingGates.XBackward") >>],
       [hint |-> "Other X",
        gates |-> << OtherX.X16, OtherX.X8, OtherX.X3,
                     OtherX.X16i, OtherX.X8i, OtherX.X3i >>],
       [hint |-> "Other Y",
        gates |-> << OtherY.Y16, OtherY.Y8, OtherY.Y3,
                     OtherY.Y16i, OtherY.Y8i, OtherY.Y3i >>],
       [hint |-> "Other Z",
        gates |-> << OtherZ.Z16, OtherZ.Z8, OtherZ.Z3,
                     OtherZ.Z16, OtherZ.Z8i, OtherZ.Z3i >>] >>

(***************************************************************************)
(* The catalogue in use: the serializer looks gates up by id and gives the *)
(* id of a listed gate; callers ask a family for its member of a span.     *)
(*                                               specification SpecCatalog *)
(***************************************************************************)
VARIABLES
    catQuery,   \* the last request made of the catalogue
    catAnswer,  \* what it answered: the gates found, in catalogue order
    catPrev     \* the request before that and its answer, when it was an ofSize

catVars == <<catQuery, catAnswer, catPrev>>

NoQuery == [op |-> "none", id |-> "", family |-> "", span |-> 0, index |-> 0]
NoPrev == [query |-> NoQuery, answer |-> <<>>]

Families == [FourierTransformFamily |-> FourierTransformFamily,
             CycleBitsFamily |-> ExperimentalAndImplausible.CycleBitsFamily]

\* the spans asked for: the declared ranges and one span beyond either end
AskedSpans == 0..17

\* the ids asked for: every listed id, and ids no gate carries
AskedIds ==
    {KnownToSerializer[i].serializedId : i \in DOMAIN KnownToSerializer}
    \cup {"QFT0", "QFT17", "QFT", "__unstable__cycle1", "__unstable__cycle17", "Nope"}

\* forward lookup, id -> gate: the listed gates that carry the id
GatesWithId(id) == SelectSeq(KnownToSerializer, LAMBDA g : g.serializedId = id)

\* the serializer resolves an id of a persisted circuit
Deserialize ==
    \E id \in AskedIds :
        /\ catQuery' = [NoQuery EXCEPT !.op = "deserialize", !.id = id]
        /\ catAnswer' = GatesWithId(id)
        /\ catPrev' = NoPrev

\* the serializer writes the id of the listed gate at a position of the catalogue
Serialize ==
    \E i \in DOMAIN KnownToSerializer :
        /\ catQuery' = [NoQuery EXCEPT !.op = "serialize", !.index = i,
                                       !.id = KnownToSerializer[i].serializedId]
        /\ catAnswer' = <<KnownToSerializer[i]>>
        /\ catPrev' = NoPrev

\* a caller asks a family for its member of a span
OfSizeCall ==
    \E f \in DOMAIN Families, span \in AskedSpans :
        LET g == ofSize(Families[f], span)
        IN  /\ catQuery' = [NoQuery EXCEPT !.op = "ofSize", !.family = f, !.span = span]
            /\ catAnswer' = IF g = Undefined THEN <<>> ELSE <<g>>
            /\ catPrev' = IF catQuery.op = "ofSize"
                          THEN [query |-> catQuery, answer |-> catAnswer]
                          ELSE NoPrev

IdleCat ==
    /\ catQuery = NoQuery
    /\ catAnswer = <<>>
    /\ catPrev = NoPrev

(***************************************************************************)
(* Claims about the catalogue (specification SpecCatalog)                  *)
(***************************************************************************)
QftIds == <<"QFT1", "QFT2", "QFT3", "QFT4", "QFT5", "QFT6", "QFT7", "QFT8", "QFT9",
            "QFT10", "QFT11", "QFT12", "QFT13", "QFT14", "QFT15", "QFT16">>

\* C4: Gates.FourierTransformFamily has one member for each span 1..16 and none
\* for another span; the member of span s has id "QFT" + s and height s; the 16 ids
\* differ; every member is listed in Gates.KnownToSerializer; ofSize(s) answers
\* that member, and answers the same on a repeated call.
C4_FourierFamily ==
    LET all == FourierTransformFamily.all
    IN  /\ Len(all) = 16
        /\ \A s \in AskedSpans :
              Cardinality({k \in DOMAIN all : all[k].height = s})
                  = IF s \in 1..16 THEN 1 ELSE 0
        /\ \A s \in 1..16 :
              /\ all[s].serializedId = QftIds[s]
              /\ all[s].height = s
              /\ \E i \in DOMAIN KnownToSerializer : KnownToSerializer[i] = all[s]
        /\ \A s, t \in 1..16 : s # t => all[s].serializedId # all[t].serializedId
        /\ (catQuery.op = "ofSize" /\ catQuery.family = "FourierTransformFamily") =>
              /\ catAnswer = IF catQuery.span \in 1..16 THEN <<all[catQuery.span]>> ELSE <<>>
              /\ catPrev.query = catQuery => catPrev.answer = catAnswer

\* C4 witness: ofSize(16) was asked twice in a row and answered the gate "QFT16".
C4_Witness ==
    /\ catQuery.op = "ofSize"
    /\ catQuery.family = "FourierTransformFamily"
    /\ catQuery.span = 16
    /\ catPrev.query = catQuery
    /\ Len(catAnswer) = 1
    /\ catAnswer[1].serializedId = "QFT16"
    /\ catAnswer[1].height = 16

\* C7: a serialized id is carried by at most one listed gate, so looking an id up
\* answers at most one gate; the id written for a listed gate resolves to that gate
\* alone, and no gate is listed at two positions.
C7_IdsUnique ==
    /\ catQuery.op = "deserialize" =>
          /\ Len(catAnswer) <= 1
          /\ \A k \in DOMAIN catAnswer : catAnswer[k].serializedId = catQuery.id
    /\ catQuery.op = "serialize" =>
          /\ GatesWithId(catQuery.id) = catAnswer
          /\ \A j \in DOMAIN KnownToSerializer :
                j # catQuery.index =>
                    /\ KnownToSerializer[j] # KnownToSerializer[catQuery.index]
                    /\ KnownToSerializer[j].serializedId # catQuery.id

\* C7 witness: the id of the last bit-cycle gate was looked up and found once.
C7_Witness ==
    /\ catQuery.op = "deserialize"
    /\ catQuery.id = "__unstable__cycle16"
    /\ Len(catAnswer) = 1
    /\ catAnswer[1].height = 16

(***************************************************************************)
(* PART III -- the Fourier transform gate                                  *)
(* (a) its one-wire member applied through its known matrix                *)
(*                                                  specification SpecQft1 *)
(***************************************************************************)
\* the control masks and the lowest wires a gate is tried with
ControlMasks == {"noControls", "controlled"}
BaseBits == {0, 3}

VARIABLES
    q1Input,    \* the wire's state before the gate: amplitudes of |0> and |1>
    q1State,    \* the wire's state now
    q1Count     \* how many times the gate has been applied

q1Vars == <<q1Input, q1State, q1Count>>

\* amplitudes of the states tried: 0, the four units, and the units scaled by
\* sqrt(1/2) and by (1 +- i)/2
Amplitudes ==
    LET signs == {-1, 1}
    IN  {CZero}
        \cup {Complex(RInt(x), RInt(0)) : x \in signs}
        \cup {Complex(RInt(0), RInt(x)) : x \in signs}
        \cup {Complex(Real(0, x, 1), RInt(0)) : x \in signs}
        \cup {Complex(RInt(0), Real(0, x, 1)) : x \in signs}
        \cup {Complex(Real(x, 0, 1), Real(y, 0, 1)) : x \in signs, y \in signs}

\* |a|^2
NormSquared(a) == RAdd(RMul(a.re, a.re), RMul(a.im, a.im))

\* the one-wire states tried: the amplitude pairs of total probability 1
UnitStates ==
    {v \in [0..1 -> Amplitudes] : RAdd(NormSquared(v[0]), NormSquared(v[1])) = RInt(1)}

\* the product of a square matrix of complex cells and a column vector
RECURSIVE DotFrom(_, _, _)
DotFrom(row, v, c) ==
    IF c \notin DOMAIN row THEN CZero
    ELSE CAdd(CMul(row[c], v[c]), DotFrom(row, v, c + 1))
MatrixTimesVector(cells, v) == [r \in DOMAIN cells |-> DotFrom(cells[r], v, 0)]

\* the gate applied to the wire through its known matrix
ApplyQft1 ==
    /\ q1Count < MaxApplications
    /\ q1State' = MatrixTimesVector(ofSize(FourierTransformFamily, 1).matrix.cells, q1State)
    /\ q1Count' = q1Count + 1
    /\ UNCHANGED q1Input

InitQft1 ==
    /\ q1Input \in UnitStates
    /\ q1State = q1Input
    /\ q1Count = 0

IdleQft1 == InitQft1 /\ q1Input = [i \in 0..1 |-> IF i = 0 THEN COne ELSE CZero]

\* sqrt(1/2)
InvSqrt2 == Complex(Real(0, 1, 1), RInt(0))
MinusOne == Complex(RInt(-1), RInt(0))

\* the Hadamard transform of a one-wire state
Hadamard(v) ==
    [i \in 0..1 |-> IF i = 0 THEN CMul(InvSqrt2, CAdd(v[0], v[1]))
                    ELSE CMul(InvSqrt2, CAdd(v[0], CMul(MinusOne, v[1])))]

\* C5 (as claimed): one application of FourierTransformFamily.ofSize(1) leaves
\* every one-wire state as it was.
C5_Qft1IsIdentity ==
    q1Count = 1 => q1State = q1Input

\* C5 (amended): the known matrix of FourierTransformFamily.ofSize(1) is the
\* Hadamard matrix: one application takes (a, b) to ((a+b)/sqrt 2, (a-b)/sqrt 2),
\* and a second application restores (a, b); its shader list is no swap pass and
\* one fourierTransformStep pass.
C5_Qft1IsHadamard ==
    /\ q1Count % 2 = 1 => q1State = Hadamard(q1Input)
    /\ q1Count % 2 = 0 => q1State = q1Input
    /\ ofSize(FourierTransformFamily, 1).matrix.cells
           = [r \in 0..1 |-> [c \in 0..1 |->
                 IF r = 1 /\ c = 1 THEN CMul(MinusOne, InvSqrt2) ELSE InvSqrt2]]
    /\ \A con \in ControlMasks, bit \in BaseBits :
           LET passes == FourierTransformCustomShaders(1, con, bit)
           IN  /\ Len(passes) = 1
               /\ passes[1].shader = "GateShaders.fourierTransformStep"
               /\ passes[1].i = 0

\* C5 witness: the gate was applied once to |0> and gave (|0> + |1>)/sqrt 2.
C5_Witness ==
    /\ q1Count = 1
    /\ q1Input = [i \in 0..1 |-> IF i = 0 THEN COne ELSE CZero]
    /\ q1State = [i \in 0..1 |-> InvSqrt2]

(***************************************************************************)
(* (b) the gate's custom shader list run pass by pass                      *)
(*                                               specification SpecFourier *)
(***************************************************************************)
VARIABLES
    ftSpan,     \* the member's span
    ftCon,      \* the control mask the column hands to every shader
    ftBit,      \* the gate's lowest wire
    ftPasses,   \* the shader calls made so far, in order
    ftWire      \* ftWire[j]: the wire whose value now sits on wire j

ftVars == <<ftSpan, ftCon, ftBit, ftPasses, ftWire>>

\* the pipeline runs the next shader of the list on the output of the one before
RunPass ==
    LET shaders == FourierTransformCustomShaders(ftSpan, ftCon, ftBit)
        n == Len(ftPasses) + 1
    IN  /\ n <= Len(shaders)
        /\ ftPasses' = Append(ftPasses, shaders[n])
        /\ ftWire' = IF shaders[n].shader = "CircuitShaders.swap"
                     THEN [j \in DOMAIN ftWire |->
                              IF j = shaders[n].a THEN ftWire[shaders[n].b]
                              ELSE IF j = shaders[n].b THEN ftWire[shaders[n].a]
                              ELSE ftWire[j]]
                     ELSE ftWire
        /\ UNCHANGED <<ftSpan, ftCon, ftBit>>

InitFourier ==
    /\ ftSpan \in 1..16
    /\ ftCon \in ControlMasks
    /\ ftBit \in BaseBits
    /\ ftPasses = <<>>
    /\ ftWire = [j \in 0..20 |-> j]

IdleFourier == InitFourier /\ ftSpan = 1 /\ ftCon = "noControls" /\ ftBit = 0

\* the pass the claim puts at position k of the list of a gate of span s
ClaimedPass(k, s, con, bit) ==
    IF k <= s \div 2
    THEN [shader |-> "CircuitShaders.swap", con |-> con, bit |-> bit,
          a |-> bit + (k - 1), b |-> bit + s - (k - 1) - 1]
    ELSE [shader |-> "GateShaders.fourierTransformStep", con |-> con, bit |-> bit,
          i |-> k - (s \div 2) - 1]

\* C6: the list of a gate of span s has floor(s/2) + s passes; the passes run so
\* far are the first ones of: the swaps of wires bit+i and bit+s-i-1 for
\* i = 0..floor(s/2)-1, then the steps 0..s-1; the swapped pairs are disjoint and
\* inside the span; once the swaps are done the wires of the span are in reverse
\* order and the others untouched; every pass gets the same mask and base wire.
C6_PassList ==
    LET s == ftSpan
        n == Len(ftPasses)
        swaps == {k \in 1..n : ftPasses[k].shader = "CircuitShaders.swap"}
    IN  /\ Len(FourierTransformCustomShaders(s, ftCon, ftBit)) = (s \div 2) + s
        /\ n <= (s \div 2) + s
        /\ \A k \in 1..n : ftPasses[k] = ClaimedPass(k, s, ftCon, ftBit)
        /\ \A k \in swaps :
              /\ ftPasses[k].a < ftPasses[k].b
              /\ ftBit <= ftPasses[k].a
              /\ ftPasses[k].b <= ftBit + s - 1
        /\ \A k, l \in swaps :
              k # l => {ftPasses[k].a, ftPasses[k].b} \cap {ftPasses[l].a, ftPasses[l].b} = {}
        /\ n >= s \div 2 =>
              \A j \in DOMAIN ftWire :
                  ftWire[j] = IF j \in ftBit..(ftBit + s - 1)
                              THEN ftBit + (ftBit + s - 1 - j) ELSE j

\* C6 witness: the list of the gate of span 5 on wires 3..7 has run to its end,
\* 2 swaps and 5 steps.
C6_Witness ==
    /\ ftSpan = 5
    /\ ftBit = 3
    /\ ftCon = "controlled"
    /\ Len(ftPasses) = 7
    /\ ftPasses[2].shader = "CircuitShaders.swap"
    /\ ftPasses[3].shader = "GateShaders.fourierTransformStep"
    /\ ftWire[3] = 7 /\ ftWire[4] = 6 /\ ftWire[5] = 5

(***************************************************************************)
(* PART IV -- a rotation gate followed by its declared adjoint             *)
(*                                                 specification SpecTurns *)
(***************************************************************************)
\* the forward/adjoint pairs the catalogue declares: "Principle ... root" and
\* "Adjoint ... root" of the same axis and order
DeclaredAdjointPairs == <<
    <<QuarterTurns.SqrtXForward, QuarterTurns.SqrtXBackward>>,
    <<QuarterTurns.SqrtYForward, QuarterTurns.SqrtYBackward>>,
    <<QuarterTurns.SqrtZForward, QuarterTurns.SqrtZBackward>>,
    <<OtherX.X3, OtherX.X3i>>, <<OtherX.X4, OtherX.X4i>>,
    <<OtherX.X8, OtherX.X8i>>, <<OtherX.X16, OtherX.X16i>>,
    <<OtherY.Y3, OtherY.Y3i>>, <<OtherY.Y4, OtherY.Y4i>>,
    <<OtherY.Y8, OtherY.Y8i>>, <<OtherY.Y16, OtherY.Y16i>>,
    <<OtherZ.Z3, OtherZ.Z3i>>, <<OtherZ.Z4, OtherZ.Z4i>>,
    <<OtherZ.Z8, OtherZ.Z8i>>, <<OtherZ.Z16, OtherZ.Z16i>> >>

\* phases are counted in 96ths of a turn: every denominator used (4, 6, 8, 16, 32)
\* divides 96
PhaseUnits == 3 * 32

\* the axes a rotation matrix turns about
Axes(m) ==
    {a \in {"X", "Y", "Z"} :
        \/ a = "X" /\ m.x[1] # 0
        \/ a = "Y" /\ m.y[1] # 0
        \/ a = "Z" /\ m.z[1] # 0}

\* the turns of a rotation about axis a, in phase units
TurnUnits(m, a) ==
    LET t == IF a = "X" THEN m.x ELSE IF a = "Y" THEN m.y ELSE m.z
    IN  (t[1] * (PhaseUnits \div t[2])) % PhaseUnits

VARIABLES
    tnPair,     \* which declared pair is tried
    tnInput,    \* the wire's state before, in the eigenbasis of the pair's axis
    tnState,    \* the wire's state now, in that basis
    tnStage     \* 0: nothing applied, 1: the gate applied, 2: then its adjoint

tnVars == <<tnPair, tnInput, tnState, tnStage>>

\* an amplitude in polar form: a magnitude and a phase in phase units (0 for the
\* zero amplitude)
Magnitudes == {"0", "sqrt1/2", "1"}
InputPhases == {0, 24, 48, 72}
PolarAmplitudes ==
    {[mag |-> "0", phase |-> 0]}
    \cup [mag : Magnitudes \ {"0"}, phase : InputPhases]

\* the states tried: the amplitude pairs of total probability 1
TurnInputs ==
    {v \in [plus : PolarAmplitudes, minus : PolarAmplitudes] :
        \/ v.plus.mag = "1" /\ v.minus.mag = "0"
        \/ v.plus.mag = "0" /\ v.minus.mag = "1"
        \/ v.plus.mag = "sqrt1/2" /\ v.minus.mag = "sqrt1/2"}

\* the matrix of Matrix.fromPauliRotation for a turn of t about one axis, applied
\* to a state given in that axis's eigenbasis: the +1 eigenvector is kept, the -1
\* eigenvector is multiplied by e^(i*tau*t)
ApplyPauliRotation(m, v) ==
    LET a == CHOOSE a \in Axes(m) : TRUE
    IN  [v EXCEPT !.minus =
            IF v.minus.mag = "0" THEN v.minus
            ELSE [v.minus EXCEPT !.phase = (v.minus.phase + TurnUnits(m, a)) % PhaseUnits]]

\* the pair's gate is applied to the wire
ApplyGate ==
    /\ tnStage = 0
    /\ tnState' = ApplyPauliRotation(DeclaredAdjointPairs[tnPair][1].matrix, tnState)
    /\ tnStage' = 1
    /\ UNCHANGED <<tnPair, tnInput>>

\* then the gate declared as its adjoint
ApplyAdjoint ==
    /\ tnStage = 1
    /\ tnState' = ApplyPauliRotation(DeclaredAdjointPairs[tnPair][2].matrix, tnState)
    /\ tnStage' = 2
    /\ UNCHANGED <<tnPair, tnInput>>

InitTurns ==
    /\ tnPair \in DOMAIN DeclaredAdjointPairs
    /\ tnInput \in TurnInputs
    /\ tnState = tnInput
    /\ tnStage = 0

IdleTurns ==
    /\ InitTurns
    /\ tnPair = 1
    /\ tnInput = [plus |-> [mag |-> "1", phase |-> 0], minus |-> [mag |-> "0", phase |-> 0]]

\* C8: the two gates of a declared pair turn about the same single axis, their
\* turns add up to a whole number of turns, and the gate followed by its adjoint
\* leaves the wire's state as it was.
C8_AdjointRoundTrip ==
    LET f == DeclaredAdjointPairs[tnPair][1].matrix
        b == DeclaredAdjointPairs[tnPair][2].matrix
    IN  /\ Cardinality(Axes(f)) = 1
        /\ Axes(b) = Axes(f)
        /\ \A a \in Axes(f) :
              LET tf == IF a = "X" THEN f.x ELSE IF a = "Y" THEN f.y ELSE f.z
                  tb == IF a = "X" THEN b.x ELSE IF a = "Y" THEN b.y ELSE b.z
              IN  (tf[1] * tb[2] + tb[1] * tf[2]) % (tf[2] * tb[2]) = 0
        /\ tnStage = 2 => tnState = tnInput

\* C8 witness: Z^(1/16) moved the phase of a superposition and Z^(-1/16) moved it
\* back.
C8_Witness ==
    /\ tnStage = 2
    /\ DeclaredAdjointPairs[tnPair] = <<OtherZ.Z16, OtherZ.Z16i>>
    /\ tnInput.minus = [mag |-> "sqrt1/2", phase |-> 24]
    /\ tnState = tnInput

(***************************************************************************)
(* PART V -- the bit-cycle matrix applied again and again                  *)
(*                                                 specification SpecCycle *)
(***************************************************************************)
VARIABLES
    cySpan,     \* the span of the matrix
    cyInput,    \* the amplitudes before: one per value of the span's wires
    cyState,    \* the amplitudes now
    cyCount     \* how many times the matrix has been applied

cyVars == <<cySpan, cyInput, cyState, cyCount>>

\* the amplitude vectors tried: every basis state, and one of pairwise different
\* amplitudes
CycleInputs(span) ==
    {[c \in 0..(Pow2(span) - 1) |-> IF c = b THEN 1 ELSE 0] : b \in 0..(Pow2(span) - 1)}
    \cup {[c \in 0..(Pow2(span) - 1) |-> c + 1]}

\* the product of a square matrix of numbers and a column vector
RECURSIVE SumFrom(_, _, _)
SumFrom(row, v, c) ==
    IF c \notin DOMAIN row THEN 0
    ELSE row[c] * v[c] + SumFrom(row, v, c + 1)
NumberMatrixTimesVector(cells, v) == [r \in DOMAIN cells |-> SumFrom(cells[r], v, 0)]

\* the matrix is applied to the amplitudes
ApplyCycle ==
    /\ cyCount < cySpan
    /\ cyState' = NumberMatrixTimesVector(CYCLE_BITS_MATRIX_MAKER(cySpan), cyState)
    /\ cyCount' = cyCount + 1
    /\ UNCHANGED <<cySpan, cyInput>>

InitCycle ==
    /\ cySpan \in 2..MaxCycleSpan
    /\ cyInput \in CycleInputs(cySpan)
    /\ cyState = cyInput
    /\ cyCount = 0

IdleCycle == InitCycle /\ cySpan = 2 /\ cyInput = [c \in 0..3 |-> c + 1]

\* c rotated left by one bit within s bits, as the claim writes it
RotatedLeft(c, s) == ((c * 2) % Pow2(s)) + (c \div Pow2(s - 1))

RECURSIVE RotatedLeftTimes(_, _, _)
RotatedLeftTimes(c, s, n) ==
    IF n = 0 THEN c ELSE RotatedLeftTimes(RotatedLeft(c, s), s, n - 1)

\* C9: CYCLE_BITS_MATRIX_MAKER(s) holds only 0s and 1s, one 1 in every row and in
\* every column, the 1 of column c in row "c rotated left by one bit"; so each
\* application moves the amplitudes without changing their multiset, and s
\* applications put every amplitude back.  The family attaches the matrix to its
\* members of span 2 and 3 only.
C9_CycleIsPermutation ==
    LET m == CYCLE_BITS_MATRIX_MAKER(cySpan)
        idx == 0..(Pow2(cySpan) - 1)
        family == ExperimentalAndImplausible.CycleBitsFamily
    IN  /\ DOMAIN m = idx
        /\ \A r \in idx : DOMAIN m[r] = idx
        /\ \A r, c \in idx : m[r][c] = IF r = RotatedLeft(c, cySpan) THEN 1 ELSE 0
        /\ \A c \in idx : Cardinality({r \in idx : m[r][c] = 1}) = 1
        /\ \A r \in idx : Cardinality({c \in idx : m[r][c] = 1}) = 1
        /\ \A x \in {cyInput[c] : c \in idx} \cup {cyState[c] : c \in idx} :
              Cardinality({c \in idx : cyState[c] = x})
                  = Cardinality({c \in idx : cyInput[c] = x})
        /\ \A c \in idx : cyState[RotatedLeftTimes(c, cySpan, cyCount)] = cyInput[c]
        /\ cyCount = cySpan => cyState = cyInput
        /\ \A s \in 2..16 :
              (ofSize(family, s).matrix # Undefined) <=> (s \in {2, 3})

\* C9 witness: the matrix of span 3 was applied once to pairwise different
\* amplitudes and moved them.
C9_Witness ==
    /\ cySpan = 3
    /\ cyCount = 1
    /\ cyInput = [c \in 0..7 |-> c + 1]
    /\ cyState # cyInput
    /\ cyState[2] = cyInput[1]
    /\ cyState[1] = cyInput[4]

(***************************************************************************)
(* PART VI -- evaluating a circuit that holds the error injection gate     *)
(*                                                  specification SpecEval *)
(***************************************************************************)
NoError == [message |-> "", qubit |-> -1]

\* Mutant: the shader throws on wire 0 only and passes its input on elsewhere.
ErrorInjectionShader_onlyOnWire0(inputTex, controlTex, qubit) ==
    IF qubit = 0
    THEN [threw |-> TRUE, output |-> 0,
          error |-> [message |-> "Applied an Error Injection Gate", qubit |-> qubit]]
    ELSE [threw |-> FALSE, output |-> inputTex, error |-> NoError]

\* the custom shader of Gates.ExperimentalAndImplausible.ErrorInjection
\* (AllGates.js:405-407): throws a DetailedError holding the wire, returns nothing
ErrorInjectionShader(inputTex, controlTex, qubit) ==
    [threw |-> TRUE, output |-> 0,
     error |-> [message |-> "Applied an Error Injection Gate", qubit |-> qubit]]

\* GateShaders.universalNot(inputTex, controlTex, qubit): renders a new texture
universalNot(inputTex, controlTex, qubit) ==
    [threw |-> FALSE, output |-> inputTex + 1, error |-> NoError]

\* the custom shader of the gate with a serialized id
CustomShader(id, inputTex, controlTex, qubit) ==
    IF id = ExperimentalAndImplausible.ErrorInjection.serializedId
    THEN ErrorInjectionShader(inputTex, controlTex, qubit)
    ELSE universalNot(inputTex, controlTex, qubit)

VARIABLES
    evCircuit,      \* the columns of the circuit under evaluation: gate id and wire
    evControl,      \* the control mask of the evaluation
    evPc,           \* the column to apply next
    evTex,          \* the texture holding the state (0: none)
    evStatus,       \* idle, running, completed or failed
    evReport,       \* the error reported to the caller of a failed evaluation
    evFailedBefore, \* history: an earlier evaluation failed
    hostAlive       \* the host process is running

evVars == <<evCircuit, evControl, evPc, evTex, evStatus, evReport, evFailedBefore,
            hostAlive>>

EvalGateIds == {ExperimentalAndImplausible.ErrorInjection.serializedId,
                ExperimentalAndImplausible.UniversalNot.serializedId}
EvalColumns == [gate : EvalGateIds, qubit : 0..1]
EvalCircuits == UNION {[1..n -> EvalColumns] : n \in 1..MaxColumns}

\* the evaluator starts on a circuit, from the texture of the state |0..0>
StartEvaluation ==
    \E circuit \in EvalCircuits, con \in ControlMasks :
        /\ evStatus # "running"
        /\ hostAlive
        /\ evCircuit' = circuit
        /\ evControl' = con
        /\ evPc' = 1
        /\ evTex' = 1
        /\ evStatus' = "running"
        /\ evReport' = NoError
        /\ evFailedBefore' = (evFailedBefore \/ evStatus = "failed")
        /\ UNCHANGED hostAlive

\* the evaluator applies the next column's custom shader; an exception of the
\* shader is caught at the evaluator's boundary, ends this evaluation and is
\* reported to its caller
ApplyColumn ==
    /\ evStatus = "running"
    /\ evPc <= Len(evCircuit)
    /\ LET r == CustomShader(evCircuit[evPc].gate, evTex, evControl, evCircuit[evPc].qubit)
       IN  IF r.threw
           THEN /\ evStatus' = "failed"
                /\ evReport' = r.error
                /\ evTex' = 0
                /\ UNCHANGED evPc
           ELSE /\ evTex' = r.output
                /\ evPc' = evPc + 1
                /\ UNCHANGED <<evStatus, evReport>>
    /\ UNCHANGED <<evCircuit, evControl, evFailedBefore, hostAlive>>

\* every column is applied: the evaluation hands its state to the caller
FinishEvaluation ==
    /\ evStatus = "running"
    /\ evPc > Len(evCircuit)
    /\ evStatus' = "completed"
    /\ UNCHANGED <<evCircuit, evControl, evPc, evTex, evReport, evFailedBefore, hostAlive>>

IdleEval ==
    /\ evCircuit = <<>>
    /\ evControl = "noControls"
    /\ evPc = 1
    /\ evTex = 0
    /\ evStatus = "idle"
    /\ evReport = NoError
    /\ evFailedBefore = FALSE
    /\ hostAlive = TRUE

ErrorInjectionId == "__debug__ErrorInjection"
HasErrorInjection(circuit) == \E k \in DOMAIN circuit : circuit[k].gate = ErrorInjectionId

\* C10: the error injection shader throws for every texture, control mask and
\* wire and returns no state; an evaluation that reaches the gate ends failed, at
\* that column, with the gate's error reported and no state, never completed; the
\* host keeps running, and an evaluation of a circuit without the gate completes
\* with a state, also after a failed one.
C10_ErrorInjectionFails ==
    /\ \A tex \in 1..(MaxColumns + 1), con \in ControlMasks, qubit \in 0..1 :
          LET r == ErrorInjectionShader(tex, con, qubit)
          IN  r.threw /\ r.output = 0 /\ r.error.qubit = qubit
    /\ hostAlive
    /\ evStatus = "failed" =>
          /\ evCircuit[evPc].gate = ErrorInjectionId
          /\ \A k \in 1..(evPc - 1) : evCircuit[k].gate # ErrorInjectionId
          /\ evReport = [message |-> "Applied an Error Injection Gate",
                         qubit |-> evCircuit[evPc].qubit]
          /\ evTex = 0
    /\ evStatus = "completed" =>
          /\ ~HasErrorInjection(evCircuit)
          /\ evReport = NoError
          /\ evTex = Len(evCircuit) + 1
    /\ evStatus = "running" =>
          /\ \A k \in 1..(evPc - 1) : evCircuit[k].gate # ErrorInjectionId
          /\ evTex = evPc

\* C10 witness: after an evaluation that failed on the gate, an evaluation of a
\* circuit without it has completed.
C10_Witness ==
    /\ evStatus = "completed"
    /\ evFailedBefore
    /\ Len(evCircuit) = 2
    /\ hostAlive

(***************************************************************************)
(* PART VII -- the toolbox: gates are grabbed from the groups of Gates.Sets *)
(*                                               specification SpecToolbox *)
(***************************************************************************)
VARIABLES
    tbFrom,     \* the group and the place (counted from 0) last grabbed from
    tbHeld      \* the gate in the hand, Null when the hand is empty

tbVars == <<tbFrom, tbHeld>>

NoPlace == [hint |-> "", position |-> -1]

\* the gates of the group with a hint
GatesOfGroup(hint) ==
    LET g == CHOOSE g \in DOMAIN Sets : Sets[g].hint = hint
    IN  Sets[g].gates

\* the user grabs the gate at a place of a toolbox group that is not empty
Grab ==
    \E g \in DOMAIN Sets :
        \E i \in DOMAIN Sets[g].gates :
            /\ tbHeld = Null
            /\ Sets[g].gates[i] # Null
            /\ tbFrom' = [hint |-> Sets[g].hint, position |-> i - 1]
            /\ tbHeld' = Sets[g].gates[i]

\* the user lets the gate go
Release ==
    /\ tbHeld # Null
    /\ tbHeld' = Null
    /\ UNCHANGED tbFrom

IdleToolbox ==
    /\ tbFrom = NoPlace
    /\ tbHeld = Null

\* the gate listed as the inverse of a gate by a declared pair, Null if none
DeclaredInverse(gate) ==
    LET hits == {k \in DOMAIN DeclaredAdjointPairs : DeclaredAdjointPairs[k][1] = gate}
    IN  IF hits = {} THEN Null ELSE DeclaredAdjointPairs[CHOOSE k \in hits : TRUE][2]

\* C12: the "Other Z" group of Gates.Sets holds Z16 at the places 0 and 3 and holds
\* Z16i nowhere, so no grab from it gives Z16i; the "Other X" and "Other Y" groups
\* hold six different gates each, the gate at place i+3 being the declared inverse
\* of the gate at place i for i = 0, 1, 2; Z16i is listed in
\* Gates.KnownToSerializer.
C12_OtherZListsZ16Twice ==
    LET z == GatesOfGroup("Other Z")
    IN  /\ Len(z) = 6
        /\ z[1] = OtherZ.Z16
        /\ z[4] = OtherZ.Z16
        /\ \A i \in DOMAIN z : z[i] # OtherZ.Z16i
        /\ \A i \in {2, 3} : z[i + 3] = DeclaredInverse(z[i])
        /\ \A hint \in {"Other X", "Other Y"} :
              LET g == GatesOfGroup(hint)
              IN  /\ Len(g) = 6
                  /\ \A i, j \in DOMAIN g : i # j => g[i] # g[j]
                  /\ \A i \in 1..3 : g[i] # Null /\ g[i + 3] = DeclaredInverse(g[i])
        /\ \E k \in DOMAIN KnownToSerializer : KnownToSerializer[k] = OtherZ.Z16i
        /\ (tbHeld # Null /\ tbFrom.hint = "Other Z") =>
              /\ tbHeld # OtherZ.Z16i
              /\ tbFrom.position \in {0, 3} => tbHeld = OtherZ.Z16

\* C12 witness: the gate grabbed from place 3 of "Other Z" is Z16.
C12_Witness ==
    /\ tbFrom = [hint |-> "Other Z", position |-> 3]
    /\ tbHeld = OtherZ.Z16
    /\ tbHeld # DeclaredInverse(OtherZ.Z16)

(***************************************************************************)
(* PART VIII -- the measurement gate's extra disable reason                *)
(*                    (src/gates/MeasurementGate.js) specification SpecMeasure *)
(***************************************************************************)
NestingReason == "can't\nnest\nmeasure\n(sorry)"
ControlReason == "can't\ncontrol\n(sorry)"
NoReason == "undefined"

\* Mutant: the control check comes before the nesting check.
ExtraDisableReasonFinder_controlFirst(args) ==
    LET isMeasured == BitAnd(args.measuredMask, Shl(1, args.outerRow)) # 0
    IN  IF args.hasControl /\ ~isMeasured THEN ControlReason
        ELSE IF args.isNested THEN NestingReason
        ELSE NoReason

\* the function given to setExtraDisableReasonFinder (MeasurementGate.js:34-43);
\* args.hasControl stands for args.innerColumn.hasControl()
ExtraDisableReasonFinder(args) ==
    IF args.isNested THEN NestingReason
    ELSE LET isMeasured == BitAnd(args.measuredMask, Shl(1, args.outerRow)) # 0
         IN  IF args.hasControl /\ ~isMeasured THEN ControlReason
             ELSE NoReason

VARIABLES
    mgArgs,     \* the arguments of the last call of the finder
    mgReason    \* what it returned

mgVars == <<mgArgs, mgReason>>

\* the arguments tried: a gate on one of MaxWires wires, any set of them measured
DisableArgs ==
    [isNested : BOOLEAN, hasControl : BOOLEAN,
     measuredMask : 0..(Pow2(MaxWires) - 1), outerRow : 0..(MaxWires - 1)]

\* the circuit asks the measurement gate for its extra disable reason
FindDisableReason ==
    \E args \in DisableArgs :
        /\ mgArgs' = args
        /\ mgReason' = ExtraDisableReasonFinder(args)

IdleMeasure ==
    /\ mgArgs = [isNested |-> FALSE, hasControl |-> FALSE, measuredMask |-> 0,
                 outerRow |-> 0]
    /\ mgReason = NoReason

\* whether wire row is measured according to mask: bit row of mask, by division
WireMeasured(mask, row) == (mask \div Pow2(row)) % 2 = 1

\* C13: the reason is the nesting reason whenever isNested holds, whatever the
\* other inputs; otherwise the control reason exactly when the column has a
\* control and bit outerRow of measuredMask is 0; otherwise undefined.  So the
\* gate is enabled iff it is not nested and its column has no control or its wire
\* is measured; and the answer is one of the three for every input.
C13_DisableReason ==
    LET measured == WireMeasured(mgArgs.measuredMask, mgArgs.outerRow)
    IN  /\ mgReason \in {NestingReason, ControlReason, NoReason}
        /\ mgArgs.isNested => mgReason = NestingReason
        /\ ~mgArgs.isNested =>
              /\ (mgReason = ControlReason) <=> (mgArgs.hasControl /\ ~measured)
              /\ (mgReason = NoReason) <=> (~mgArgs.hasControl \/ measured)
        /\ (mgReason = NoReason) <=>
              (~mgArgs.isNested /\ (~mgArgs.hasControl \/ measured))

\* C13 witness: a nested gate in a column with a control, on an unmeasured wire
\* next to a measured one, was given the nesting reason.
C13_Witness ==
    /\ mgArgs = [isNested |-> TRUE, hasControl |-> TRUE, measuredMask |-> 5,
                 outerRow |-> 1]
    /\ mgReason = NestingReason

(***************************************************************************)
(* PART IX -- the clock pulse gates over time     specification SpecClock  *)
(*                                                                         *)
(* Time is a JavaScript number, an IEEE 754 double.  The doubles tried are *)
(* the multiples of 1/8 and their neighbours: a time is q/8 + off * 2^-55, *)
(* written [q |-> q, off |-> off], off far smaller than 2^52.  The doubles *)
(* of [1/8, 1/4) lie 2^-55 apart, those of [1/4, 1/2) twice as far, and so *)
(* on, doubling with every power of two.                                   *)
(***************************************************************************)
\* Gate.withStableDuration of the two gates, in eighths: 0.5 (AllGates.js:350) and
\* 0.25 (AllGates.js:358)
ClockPulseStableDuration == 4
QuarterPhaseStableDuration == 2

\* the distance, in units of 2^-55, between neighbouring doubles in the power-of-
\* two interval that holds the values from q/8 upwards; below 1/8 every multiple
\* of 2^-55 is a double
RECURSIVE SpacingFrom(_)
SpacingFrom(q) == IF q <= 1 THEN 1 ELSE 2 * SpacingFrom(q \div 2)

\* the distance between neighbouring doubles around q/8 + off * 2^-55
Spacing(x) ==
    IF x.off < 0 THEN SpacingFrom(x.q - 1)
    ELSE SpacingFrom(x.q)

\* is q/8 + off * 2^-55 a double, and not negative
IsDouble(x) ==
    /\ x.q >= 0
    /\ x.q = 0 => x.off >= 0
    /\ x.off % Spacing(x) = 0

\* the double nearest to q/8 + off * 2^-55, the one with the even mantissa when two
\* are as near: the rounding of every JavaScript arithmetic operation
RoundToDouble(x) ==
    LET g == Spacing(x)
        steps == x.off \div g
        lo == steps * g
        r == x.off - lo
    IN  [x EXCEPT !.off = IF 2 * r < g THEN lo
                          ELSE IF 2 * r > g THEN lo + g
                          ELSE IF steps % 2 = 0 THEN lo ELSE lo + g]

\* t + c/8 as JavaScript computes it
PlusEighths(t, c) == RoundToDouble([q |-> t.q + c, off |-> t.off])

\* t % 1 for t >= 0: exact, no rounding
Mod1(t) ==
    IF t.off < 0 THEN [q |-> ((t.q - 1) % 8) + 1, off |-> t.off]
    ELSE [q |-> t.q % 8, off |-> t.off]

\* t < 0.5
LessThanHalf(t) == t.q < 4 \/ (t.q = 4 /\ t.off < 0)

\* the matrix function of Gates.Misc.ClockPulseGate (AllGates.js:346):
\* t => (t % 1) < 0.5 ? Matrix.identity(2) : Matrix.PAULI_X
ClockPulseMatrix(t) ==
    IF LessThanHalf(Mod1(t)) THEN "identity" ELSE "PAULI_X"

\* the matrix function of Gates.Misc.QuarterPhaseClockPulseGate (AllGates.js:354):
\* t => ((t+0.75) % 1) < 0.5 ? Matrix.identity(2) : Matrix.PAULI_X
QuarterPhaseClockPulseMatrix(t) ==
    IF LessThanHalf(Mod1(PlusEighths(t, 6))) THEN "identity" ELSE "PAULI_X"

VARIABLES
    ckTime,     \* the time the gates' matrices were last asked for
    ckClock,    \* ClockPulseGate's matrix at that time
    ckQuarter,  \* QuarterPhaseClockPulseGate's matrix at that time
    ckPrev      \* the time asked before, and the two matrices then

ckVars == <<ckTime, ckClock, ckQuarter, ckPrev>>

\* the times tried: every multiple of 1/8 up to MaxTimeEighths/8 and the doubles
\* up to NearSteps spacings away from it on either side
ClockTimes ==
    {t \in [q : 0..MaxTimeEighths, off : (-NearSteps * 16)..(NearSteps * 16)] :
        /\ IsDouble(t)
        /\ \E j \in (-NearSteps)..NearSteps : t.off = j * Spacing(t)}

\* the circuit is shown at a time: both gates are asked for their matrix
AskMatrices ==
    \E t \in ClockTimes :
        /\ ckPrev' = [time |-> ckTime, clock |-> ckClock, quarter |-> ckQuarter]
        /\ ckTime' = t
        /\ ckClock' = ClockPulseMatrix(t)
        /\ ckQuarter' = QuarterPhaseClockPulseMatrix(t)

IdleClock ==
    /\ ckTime = [q |-> 0, off |-> 0]
    /\ ckClock = ClockPulseMatrix(ckTime)
    /\ ckQuarter = QuarterPhaseClockPulseMatrix(ckTime)
    /\ ckPrev = [time |-> ckTime, clock |-> ckClock, quarter |-> ckQuarter]

\* the index k of the window [k*d, (k+1)*d) that holds t, d in eighths
WindowOf(t, d) == IF t.off < 0 THEN (t.q - 1) \div d ELSE t.q \div d

\* C14: over two times of the same window [k*d, (k+1)*d) of its stable duration d
\* each clock pulse gate has the same matrix, identity or Pauli X, and the
\* quarter-phase gate at a time t >= 0.25 has the matrix of ClockPulseGate at
\* t - 0.25.
C14_StableOverWindows ==
    /\ ckClock \in {"identity", "PAULI_X"}
    /\ ckQuarter \in {"identity", "PAULI_X"}
    /\ WindowOf(ckPrev.time, ClockPulseStableDuration)
           = WindowOf(ckTime, ClockPulseStableDuration)
         => ckPrev.clock = ckClock
    /\ WindowOf(ckPrev.time, QuarterPhaseStableDuration)
           = WindowOf(ckTime, QuarterPhaseStableDuration)
         => ckPrev.quarter = ckQuarter
    /\ (ckTime.q >= 3 \/ (ckTime.q = 2 /\ ckTime.off >= 0)) =>
          ckQuarter = ClockPulseMatrix([q |-> ckTime.q - 2, off |-> ckTime.off])

\* ---- specifications ----
vars == <<texVars, catVars, q1Vars, ftVars, tnVars, cyVars, evVars, tbVars, mgVars
    , ckVars>>

\* the texture freshly constructed, for the specifications that leave it alone
IdleTex == InitTex /\ width = 1 /\ height = 1 /\ pixelType = "FLOAT"

Init ==
    InitTex /\ IdleCat /\ IdleQft1 /\ IdleFourier /\ IdleTurns /\ IdleCycle /\ IdleEval
    /\ IdleToolbox /\ IdleMeasure /\ IdleClock
Next ==
    \/ Do_instanceFor
           /\ UNCHANGED <<catVars, q1Vars, ftVars, tnVars, cyVars, evVars, tbVars, mgVars
                       , ckVars>>
    \/ Do_bindFramebufferFor
           /\ UNCHANGED <<catVars, q1Vars, ftVars, tnVars, cyVars, evVars, tbVars, mgVars
                       , ckVars>>
    \/ contextLoss
           /\ UNCHANGED <<catVars, q1Vars, ftVars, tnVars, cyVars, evVars, tbVars, mgVars
                       , ckVars>>
Spec == Init /\ [][Next]_vars

InitCatalog ==
    IdleTex /\ IdleCat /\ IdleQft1 /\ IdleFourier /\ IdleTurns /\ IdleCycle /\ IdleEval
    /\ IdleToolbox /\ IdleMeasure /\ IdleClock
NextCatalog ==
    \/ Deserialize
           /\ UNCHANGED <<texVars, q1Vars, ftVars, tnVars, cyVars, evVars, tbVars, mgVars
                       , ckVars>>
    \/ Serialize
           /\ UNCHANGED <<texVars, q1Vars, ftVars, tnVars, cyVars, evVars, tbVars, mgVars
                       , ckVars>>
    \/ OfSizeCall
           /\ UNCHANGED <<texVars, q1Vars, ftVars, tnVars, cyVars, evVars, tbVars, mgVars
                       , ckVars>>
SpecCatalog == InitCatalog /\ [][NextCatalog]_vars

InitQft1Spec ==
    IdleTex /\ IdleCat /\ InitQft1 /\ IdleFourier /\ IdleTurns /\ IdleCycle /\ IdleEval
    /\ IdleToolbox /\ IdleMeasure /\ IdleClock
NextQft1 ==
    ApplyQft1
        /\ UNCHANGED <<texVars, catVars, ftVars, tnVars, cyVars, evVars, tbVars, mgVars
                       , ckVars>>
SpecQft1 == InitQft1Spec /\ [][NextQft1]_vars

InitFourierSpec ==
    IdleTex /\ IdleCat /\ IdleQft1 /\ InitFourier /\ IdleTurns /\ IdleCycle /\ IdleEval
    /\ IdleToolbox /\ IdleMeasure /\ IdleClock
NextFourier ==
    RunPass
        /\ UNCHANGED <<texVars, catVars, q1Vars, tnVars, cyVars, evVars, tbVars, mgVars
                       , ckVars>>
SpecFourier == InitFourierSpec /\ [][NextFourier]_vars

InitTurnsSpec ==
    IdleTex /\ IdleCat /\ IdleQft1 /\ IdleFourier /\ InitTurns /\ IdleCycle /\ IdleEval
    /\ IdleToolbox /\ IdleMeasure /\ IdleClock
NextTurns ==
    \/ ApplyGate
           /\ UNCHANGED <<texVars, catVars, q1Vars, ftVars, cyVars, evVars, tbVars, mgVars
                       , ckVars>>
    \/ ApplyAdjoint
           /\ UNCHANGED <<texVars, catVars, q1Vars, ftVars, cyVars, evVars, tbVars, mgVars
                       , ckVars>>
SpecTurns == InitTurnsSpec /\ [][NextTurns]_vars

InitCycleSpec ==
    IdleTex /\ IdleCat /\ IdleQft1 /\ IdleFourier /\ IdleTurns /\ InitCycle /\ IdleEval
    /\ IdleToolbox /\ IdleMeasure /\ IdleClock
NextCycle ==
    ApplyCycle
        /\ UNCHANGED <<texVars, catVars, q1Vars, ftVars, tnVars, evVars, tbVars, mgVars
                       , ckVars>>
SpecCycle == InitCycleSpec /\ [][NextCycle]_vars

InitEvalSpec ==
    IdleTex /\ IdleCat /\ IdleQft1 /\ IdleFourier /\ IdleTurns /\ IdleCycle /\ IdleEval
    /\ IdleToolbox /\ IdleMeasure /\ IdleClock
NextEval ==
    \/ StartEvaluation
           /\ UNCHANGED <<texVars, catVars, q1Vars, ftVars, tnVars, cyVars, tbVars, mgVars
                       , ckVars>>
    \/ ApplyColumn
           /\ UNCHANGED <<texVars, catVars, q1Vars, ftVars, tnVars, cyVars, tbVars, mgVars
                       , ckVars>>
    \/ FinishEvaluation
           /\ UNCHANGED <<texVars, catVars, q1Vars, ftVars, tnVars, cyVars, tbVars, mgVars
                       , ckVars>>
SpecEval == InitEvalSpec /\ [][NextEval]_vars

InitToolboxSpec ==
    IdleTex /\ IdleCat /\ IdleQft1 /\ IdleFourier /\ IdleTurns /\ IdleCycle /\ IdleEval
    /\ IdleToolbox /\ IdleMeasure /\ IdleClock
NextToolbox ==
    \/ Grab
           /\ UNCHANGED <<texVars, catVars, q1Vars, ftVars, tnVars, cyVars, evVars, mgVars
                       , ckVars>>
    \/ Release
           /\ UNCHANGED <<texVars, catVars, q1Vars, ftVars, tnVars, cyVars, evVars, mgVars
                       , ckVars>>
SpecToolbox == InitToolboxSpec /\ [][NextToolbox]_vars

InitMeasureSpec ==
    IdleTex /\ IdleCat /\ IdleQft1 /\ IdleFourier /\ IdleTurns /\ IdleCycle /\ IdleEval
    /\ IdleToolbox /\ IdleMeasure /\ IdleClock
NextMeasure ==
    FindDisableReason
        /\ UNCHANGED <<texVars, catVars, q1Vars, ftVars, tnVars, cyVars, evVars, tbVars
                       , ckVars>>
SpecMeasure == InitMeasureSpec /\ [][NextMeasure]_vars

InitClockSpec ==
    IdleTex /\ IdleCat /\ IdleQft1 /\ IdleFourier /\ IdleTurns /\ IdleCycle /\ IdleEval
    /\ IdleToolbox /\ IdleMeasure /\ IdleClock
NextClock ==
    AskMatrices
        /\ UNCHANGED <<texVars, catVars, q1Vars, ftVars, tnVars, cyVars, evVars, tbVars
                       , mgVars>>
SpecClock == InitClockSpec /\ [][NextClock]_vars
=============================================================================
